---- MODULE Spec2Model ----
(***************************************************************************)
(* vscope: a vectorscope that captures a stereo PulseAudio stream into a   *)
(* fixed circular buffer and plots it with SDL/OpenGL.                     *)
(*                                                                         *)
(* Three versions of the program are modelled side by side:                *)
(*   "info"    src/vscope.c          mainloop API, server-info query       *)
(*   "loop"    src/unnamed/part_000  mainloop API, connects on READY       *)
(*   "thread"  src/unnamed/part_001  blocking pa_simple API in a thread    *)
(***************************************************************************)
EXTENDS Integers, Sequences, FiniteSets, TLC

VARIABLES
    variant,        \* which version of the program runs
    \* ---- command line and the globals parse_args sets
    argv,           \* the options and operands getopt_long will hand out
    fail,           \* parse_args' local fail when it finished
    diags,          \* diagnostics parse_args and getopt_long printed
    geometry,       \* static geometry {x, y, w, h}
    opacity,        \* static opacity, as the text sscanf read it from
    color,          \* static color {r, g, b}, each the hex byte (/255 in C)
    rainbow,        \* static rainbow
    sink,           \* pa.sink / sink: NoSink (NULL) or a device name
    \* ---- main thread
    pc,             \* position of main
    status,         \* exit status once the process has exited, else NoStatus
    last_time,      \* main's last_time
    ticks,          \* SDL's millisecond counter (32 bits)
    \* ---- PulseAudio asynchronous API (versions "info" and "loop")
    pa_mainloop,    \* pa.mainloop handle
    pa_context,     \* pa.context handle
    pa_stream,      \* pa.stream handle
    ctx_state,      \* pa_context_get_state
    stream_state,   \* pa_stream_get_state
    default_sink,   \* the server's default_sink_name
    info_pending,   \* a pa_context_get_server_info operation is in flight
    target,         \* the device name handed to the backend on connect
    connects,       \* number of pa_stream_connect_record / pa_simple_new calls
    readies,        \* number of PA_CONTEXT_READY notifications handled
    \* ---- SDL
    sdl,            \* "off", "on", "quit"
    window,         \* window handle
    context,        \* GL context handle
    \* ---- capture thread (version "thread")
    th_pc,          \* position of sample()
    pulse,          \* sample's pa_simple handle
    run,            \* static bool run
    rd_pos,         \* elements the pa_simple_read in progress has stored
    \* ---- capture: buffer and backend record queue
    buffer,         \* static int16_t buffer[BUFFER_SIZE]
    buffer_index,   \* handle_stream_read's static buffer_index
    head,           \* fragment at the head of the backend's record queue
    \* ---- drawing
    hue,            \* argument of the last set_hue call, NoHue before the first
    gl,             \* OpenGL's current color (channel / scale) and whether
                    \* the last point drawn got it from a glColor3f call
    lens,           \* fragment lengths (bytes) the backend produces in this run
    deltas,         \* milliseconds that can pass between two SDL_GetTicks calls
    \* ---- history (not read by the program)
    cap,            \* bookkeeping of the capture path, see CapInit
    elapsed,        \* milliseconds passed since the first state of the run
    frame,          \* the frame gate: milliseconds since the last swap and
                    \* clear, and what the last evaluation of the gate saw
    log,            \* resource creations and releases, in order
    failure         \* the last backend failure raised, or "none"

argVars  == <<argv, fail, diags, geometry, opacity, color, rainbow, sink>>
mainVars == <<pc, status, last_time, ticks>>
paVars   == <<pa_mainloop, pa_context, pa_stream, ctx_state, stream_state,
              default_sink, info_pending, target, connects, readies>>
sdlVars  == <<sdl, window, context>>
thVars   == <<th_pc, pulse, run, rd_pos>>
bufVars  == <<buffer, buffer_index, head, cap>>
glVars   == <<hue, gl>>
vars     == <<variant, argVars, mainVars, paVars, sdlVars, thVars, bufVars,
              glVars, frame, lens, deltas, elapsed, log, failure>>

-----------------------------------------------------------------------------
(* Program constants *)

BUFFER_SIZE == 1024
DEFAULT_WIDTH == 480
DEFAULT_HEIGHT == 480
FRAME_TICKS == 16
EXIT_FAILURE == 1
EXIT_SUCCESS == 0

\* SDL_WINDOWPOS_UNDEFINED is 0x1FFF0000; any value no geometry string of the
\* model can denote serves.
SDL_WINDOWPOS_UNDEFINED == 536805376

NULL == "NULL"

\* Device names are sequences of strings; the null pointer is the empty one.
NoSink == <<>>

\* "<name>.monitor", the monitor source of sink name.
Monitor(name) == name \o <<".monitor">>
NoStatus == EXIT_SUCCESS - 1

Variants == {"info", "loop", "thread"}
EventVariants == {"info", "loop"}

-----------------------------------------------------------------------------
(* Bounds of the model *)

\* Fragments the backend delivers in one run.
MaxFragments == 3

\* Milliseconds a run lasts.
MaxElapsed == 34

\* Whole degrees the hues handed to set_hue go up to.
MaxHueDegrees == 557

\* Fragment lengths in bytes: three elements (not a whole frame), two frames,
\* the requested fragsize (half a buffer), and two longer than the buffer,
\* one of them with an odd byte count.
FragLengths == {6, 8, 1024, 2051, 2052}

-----------------------------------------------------------------------------
(* Strings and sscanf.  A string is a sequence of one-character strings.
   Option values are built from tokens, so that the text of a value and its
   reading by sscanf are two different things. *)

EOF == 0 - 1

UTokens == {"12", "7"}              \* unsigned decimal numbers
STokens == {"+3", "-4"}             \* numbers with an explicit sign
GeoTokens == UTokens \cup STokens \cup {"x", "z", " "}

TokenChars(t) ==
    CASE t = "12" -> <<"1", "2">>
      [] t = "7"  -> <<"7">>
      [] t = "+3" -> <<"+", "3">>
      [] t = "-4" -> <<"-", "4">>
      [] t = "FF" -> <<"F", "F">>
      [] t = "7f" -> <<"7", "f">>
      [] t = "00" -> <<"0", "0">>
      [] t = "rainbow" -> <<"r", "a", "i", "n", "b", "o", "w">>
      [] t = "0.5" -> <<"0", ".", "5">>
      [] OTHER    -> <<t>>

RECURSIVE Flatten(_)
Flatten(toks) ==
    IF toks = <<>> THEN <<>> ELSE TokenChars(Head(toks)) \o Flatten(Tail(toks))

HexDigits == <<"0", "1", "2", "3", "4", "5", "6", "7", "8", "9",
               "a", "b", "c", "d", "e", "f">>
Lower(c) == CASE c = "A" -> "a" [] c = "B" -> "b" [] c = "C" -> "c"
              [] c = "D" -> "d" [] c = "E" -> "e" [] c = "F" -> "f"
              [] OTHER -> c

\* Value of character c as a digit in the given base, or -1.
DigitVal(c, base) ==
    LET hits == {i \in 1 .. base : HexDigits[i] = Lower(c)}
    IN  IF hits = {} THEN 0 - 1 ELSE (CHOOSE i \in hits : TRUE) - 1

IsSpace(c) == c = " "

RECURSIVE SkipSpace(_, _)
SkipSpace(s, pos) ==
    IF pos <= Len(s) /\ IsSpace(s[pos]) THEN SkipSpace(s, pos + 1) ELSE pos

\* End (exclusive) of the run of base-digits starting at pos, at most
\* width characters long (width < 0: unlimited).
RECURSIVE DigitsEnd(_, _, _, _)
DigitsEnd(s, pos, base, width) ==
    IF width # 0 /\ pos <= Len(s) /\ DigitVal(s[pos], base) >= 0
    THEN DigitsEnd(s, pos + 1, base, width - 1)
    ELSE pos

RECURSIVE DigitsValue(_, _, _, _, _)
DigitsValue(s, pos, end, base, acc) ==
    IF pos >= end THEN acc
    ELSE DigitsValue(s, pos + 1, end, base, acc * base + DigitVal(s[pos], base))

\* One integer conversion (%i, %2x) at pos: leading white space is skipped,
\* then an optional sign and a run of digits are read.  res is "ok", "fail"
\* (matching failure) or "eof" (input failure: the input ended before the
\* conversion read anything).  A leading 0 would select octal or hexadecimal
\* for %i and allow a 0x prefix for %x; no value of the model has a number
\* that starts with 0 followed by x, and no %i input starts with 0.
ScanNum(s, pos, base, width) ==
    LET p1 == SkipSpace(s, pos)
    IN  IF p1 > Len(s) THEN [res |-> "eof", pos |-> p1, val |-> 0]
        ELSE LET signed == s[p1] \in {"+", "-"}
                 p2 == IF signed THEN p1 + 1 ELSE p1
                 w2 == IF signed /\ width > 0 THEN width - 1 ELSE width
                 p3 == DigitsEnd(s, p2, base, w2)
                 v  == DigitsValue(s, p2, p3, base, 0)
             IN  IF p3 = p2 THEN [res |-> "fail", pos |-> p2, val |-> 0]
                 ELSE [res |-> "ok", pos |-> p3,
                       val |-> IF s[p1] = "-" THEN 0 - v ELSE v]

\* sscanf(s, fmt, ...): fmt is a sequence of directives, "%i", "%2x" or a
\* literal character.  ret is the return value (the number of conversions
\* assigned, or EOF when the input ends before the first conversion or
\* matching failure); vals are the values stored through the pointer
\* arguments, in order.
RECURSIVE ScanFrom(_, _, _, _, _)
ScanFrom(s, fmt, k, pos, vals) ==
    IF k > Len(fmt) THEN [ret |-> Len(vals), vals |-> vals]
    ELSE IF fmt[k] \in {"%i", "%2x"}
    THEN LET r == IF fmt[k] = "%i" THEN ScanNum(s, pos, 10, 0 - 1)
                                   ELSE ScanNum(s, pos, 16, 2)
         IN  CASE r.res = "ok"   -> ScanFrom(s, fmt, k + 1, r.pos,
                                             Append(vals, r.val))
               [] r.res = "fail" -> [ret |-> Len(vals), vals |-> vals]
               [] r.res = "eof"  -> [ret |-> IF vals = <<>> THEN EOF
                                             ELSE Len(vals), vals |-> vals]
    ELSE IF pos > Len(s)
         THEN [ret |-> IF vals = <<>> THEN EOF ELSE Len(vals), vals |-> vals]
         ELSE IF s[pos] = fmt[k]
              THEN ScanFrom(s, fmt, k + 1, pos + 1, vals)
              ELSE [ret |-> Len(vals), vals |-> vals]

Sscanf(s, fmt) == ScanFrom(s, fmt, 1, 1, <<>>)

\* The struct after sscanf stored vals through pointers to fields.
RECURSIVE Store(_, _, _)
Store(rec, fields, vals) ==
    IF vals = <<>> \/ fields = <<>> THEN rec
    ELSE Store([rec EXCEPT ![Head(fields)] = Head(vals)],
               Tail(fields), Tail(vals))

-----------------------------------------------------------------------------
(* Option parsing *)

\* The count the first sscanf of parse_geometry must return.
FullMatchLoose == 4 - 1
FullMatch == 4

\* parse_geometry on optarg, from geometry g: [bad, g].  bad is the function's
\* return value (true: rejected).
parse_geometry(g, optarg) ==
    LET r1 == Sscanf(optarg, <<"%i", "x", "%i", "%i", "%i">>)
        g1 == Store(g, <<"w", "h", "x", "y">>, r1.vals)
        r2 == Sscanf(optarg, <<"%i", "x", "%i">>)
        g2 == Store(g1, <<"w", "h">>, r2.vals)
        r3 == Sscanf(optarg, <<"%i", "%i">>)
        g3 == Store(g2, <<"x", "y">>, r3.vals)
    IN  IF r1.ret = FullMatch THEN [bad |-> FALSE, g |-> g1]
        ELSE IF r2.ret = 2
        THEN [bad |-> FALSE,
              g |-> [g2 EXCEPT !.x = SDL_WINDOWPOS_UNDEFINED,
                               !.y = SDL_WINDOWPOS_UNDEFINED]]
        ELSE IF r3.ret = 2
        THEN [bad |-> FALSE,
              g |-> [g3 EXCEPT !.w = DEFAULT_WIDTH, !.h = DEFAULT_HEIGHT]]
        ELSE [bad |-> TRUE, g |-> g3]

\* The first sscanf of parse_foreground must return 3; the second is used as
\* a truth value.
IsTrue(n) == n # 0

\* parse_foreground on optarg: [bad, color, rainbow].  The locals r, g, b are
\* not initialized: junk is what they happen to hold.  A channel is kept as
\* the byte value (the program divides it by 255.0).
parse_foreground(c, rb, optarg, junk) ==
    LET r1 == Sscanf(optarg, <<"%2x", "%2x", "%2x">>)
        l1 == Store(junk, <<"r", "g", "b">>, r1.vals)
        r2 == Sscanf(optarg, <<"#", "%2x", "%2x", "%2x">>)
        l2 == Store(l1, <<"r", "g", "b">>, r2.vals)
    IN  IF optarg = TokenChars("rainbow")
        THEN [bad |-> FALSE, color |-> c, rainbow |-> TRUE]
        ELSE IF r1.ret = 3
        THEN [bad |-> FALSE, color |-> l1, rainbow |-> rb]
        ELSE IF IsTrue(r2.ret)
        THEN [bad |-> FALSE, color |-> l2, rainbow |-> rb]
        ELSE [bad |-> TRUE, color |-> c, rainbow |-> rb]

\* sscanf(optarg, "%f", &opacity): white space, an optional sign, digits with
\* an optional fraction.  [ret, text]: text is what was converted.
ScanFloat(s) ==
    LET p1 == SkipSpace(s, 1)
        p2 == IF p1 <= Len(s) /\ s[p1] \in {"+", "-"} THEN p1 + 1 ELSE p1
        p3 == DigitsEnd(s, p2, 10, 0 - 1)
        p4 == IF p3 <= Len(s) /\ s[p3] = "."
              THEN DigitsEnd(s, p3 + 1, 10, 0 - 1) ELSE p3
        nd == (p3 - p2) + (IF p4 > p3 THEN p4 - p3 - 1 ELSE 0)
    IN  IF p1 > Len(s) THEN [ret |-> EOF, text |-> <<>>]
        ELSE IF nd = 0 THEN [ret |-> 0, text |-> <<>>]
        ELSE [ret |-> 1, text |-> SubSeq(s, p1, p4 - 1)]

DefaultGeometry == [x |-> SDL_WINDOWPOS_UNDEFINED, y |-> SDL_WINDOWPOS_UNDEFINED,
                    w |-> DEFAULT_WIDTH, h |-> DEFAULT_HEIGHT]
DefaultOpacity == <<"1">>
White == [r |-> 255, g |-> 255, b |-> 255]

\* The long options each version's table holds.
Options(v) ==
    CASE v = "info"   -> {"help", "version", "geometry", "opacity", "foreground"}
      [] v = "loop"   -> {"help", "version", "geometry", "opacity"}
      [] v = "thread" -> {"help", "version", "geometry"}

\* An element of argv is [opt, val]: a long option with its argument as a
\* token sequence, or an operand (opt = "operand", val its text).  An option
\* the table lacks is written --name=value, so it brings no operand with it.
Operands(args) == SelectSeq(args, LAMBDA e : e.opt = "operand")

\* What help and version do with the status: exit(0).
HelpExitLate(ps) == ps
HelpExit(ps) == [ps EXCEPT !.exit = EXIT_SUCCESS]

\* A verdict that is printed and then forgotten: fail stays as it was.
RejectedOnlyWarns(ps, bad) ==
    [ps EXCEPT !.diags = @ + (IF bad THEN 1 ELSE 0)]

\* What a case of the switch does with the verdict bad of its parser: the
\* diagnostic and fail = true.
Rejected(ps, bad) ==
    [ps EXCEPT !.fail = @ \/ bad, !.diags = @ + (IF bad THEN 1 ELSE 0)]

GeometryCase(ps, r) == Rejected([ps EXCEPT !.geometry = r.g], r.bad)

OpacityCase(ps, r) ==
    IF r.ret = 1 THEN [ps EXCEPT !.opacity = r.text] ELSE Rejected(ps, TRUE)

ForegroundCase(ps, r) ==
    Rejected([ps EXCEPT !.color = r.color, !.rainbow = r.rainbow], r.bad)

\* The body of the getopt_long loop for one element; ps is
\* [fail, diags, geometry, opacity, color, rainbow, exit].
GetoptCase(v, e, ps, junk) ==
    IF e.opt = "operand" THEN ps                 \* permuted behind the options
    ELSE IF e.opt \notin Options(v)
    THEN Rejected(ps, TRUE)                                \* x == '?'
    ELSE CASE e.opt \in {"help", "version"} -> HelpExit(ps)
           [] e.opt = "geometry" ->
                GeometryCase(ps, parse_geometry(ps.geometry, Flatten(e.val)))
           [] e.opt = "opacity" ->
                OpacityCase(ps, ScanFloat(Flatten(e.val)))
           [] e.opt = "foreground" ->
                ForegroundCase(ps, parse_foreground(ps.color, ps.rainbow,
                                                    Flatten(e.val), junk))

\* The getopt_long loop from element k on; exit() inside the loop ends it.
RECURSIVE GetoptLoop(_, _, _, _, _)
GetoptLoop(v, args, k, ps, junk) ==
    IF k > Len(args) \/ ps.exit # NoStatus THEN ps
    ELSE GetoptLoop(v, args, k + 1, GetoptCase(v, args[k], ps, junk), junk)

\* After the loop: the operands (at most one, the sink), then the verdict.
\* ps is the loop's result, ops the operands.
AfterGetopt(ps, ops) ==
    IF ps.exit # NoStatus
    THEN [fail |-> ps.fail, diags |-> ps.diags, geometry |-> ps.geometry,
          opacity |-> ps.opacity, color |-> ps.color,
          rainbow |-> ps.rainbow, sink |-> NoSink, exit |-> ps.exit]
    ELSE [fail |-> ps.fail \/ Len(ops) > 1,
          diags |-> ps.diags + (IF Len(ops) > 1 THEN 2
                                ELSE IF ps.fail THEN 1 ELSE 0),
          geometry |-> ps.geometry, opacity |-> ps.opacity,
          color |-> ps.color, rainbow |-> ps.rainbow,
          sink |-> IF Len(ops) = 1 THEN ops[1].val ELSE NoSink,
          exit |-> IF ps.fail \/ Len(ops) > 1 THEN EXIT_FAILURE ELSE NoStatus]

PsInit == [fail |-> FALSE, diags |-> 0, geometry |-> DefaultGeometry,
           opacity |-> DefaultOpacity, color |-> White,
           rainbow |-> FALSE, exit |-> NoStatus]

\* parse_args: [fail, diags, geometry, opacity, color, rainbow, sink, exit].
parse_args(v, args, junk) ==
    AfterGetopt(GetoptLoop(v, args, 1, PsInit, junk), Operands(args))

-----------------------------------------------------------------------------
(* exit() and the atexit handler *)

Release(h) == IF h = "live" THEN "freed" ELSE h

\* The PulseAudio handles released first, SDL's calls last.
HandleExitCallsAudioFirst(v, stream, ctx, ml) ==
    (IF v \in EventVariants
     THEN (IF stream # NULL THEN <<"pa_stream_unref">> ELSE <<>>)
          \o (IF ctx # NULL
              THEN <<"pa_context_disconnect", "pa_context_unref">>
              ELSE <<>>)
          \o (IF ml # NULL THEN <<"pa_mainloop_free">> ELSE <<>>)
     ELSE <<>>)
    \o <<"SDL_GL_DeleteContext", "SDL_DestroyWindow", "SDL_Quit">>

\* The calls handle_exit makes, in order.  SDL's three calls are made
\* unconditionally; the PulseAudio handles are released only when set, and
\* only the mainloop versions hold any.
HandleExitCalls(v, stream, ctx, ml) ==
    <<"SDL_GL_DeleteContext", "SDL_DestroyWindow", "SDL_Quit">>
    \o (IF v \in EventVariants
        THEN (IF stream # NULL THEN <<"pa_stream_unref">> ELSE <<>>)
             \o (IF ctx # NULL
                 THEN <<"pa_context_disconnect", "pa_context_unref">>
                 ELSE <<>>)
             \o (IF ml # NULL THEN <<"pa_mainloop_free">> ELSE <<>>)
        ELSE <<>>)

\* exit(code) with the PulseAudio handles as they are at the call: runs
\* handle_exit, then the process is gone.
ExitWith(code, stream, ctx, ml, lg) ==
    /\ status' = code
    /\ pc' = "done"
    /\ context' = Release(context)
    /\ window' = Release(window)
    /\ sdl' = IF sdl = "on" THEN "quit" ELSE sdl
    /\ pa_stream' = Release(stream)
    /\ pa_context' = Release(ctx)
    /\ pa_mainloop' = Release(ml)
    /\ log' = lg \o HandleExitCalls(variant, stream, ctx, ml)

\* warn(...) in place of err(...): the diagnostic, and the program goes on.
WarnOnly(stream, ctx, ml, lg) ==
    /\ pa_stream' = stream /\ pa_context' = ctx /\ pa_mainloop' = ml
    /\ log' = lg
    /\ UNCHANGED <<pc, status, sdlVars>>

\* errpa(message) / errpax(message): errx(EXIT_FAILURE, ...).
errpa(stream, ctx, ml, lg) == ExitWith(EXIT_FAILURE, stream, ctx, ml, lg)

-----------------------------------------------------------------------------
(* Capture path of the mainloop versions: handle_stream_read *)

NoFrag == [data |-> FALSE, length |-> 0]

ZeroBuffer == [i \in 0 .. (BUFFER_SIZE - 1) |-> 0]

\* The k-th 16-bit element of the captured stream (k = 0, 1, ...).  A ramp:
\* every element the model delivers is distinct, none equals the zero the
\* static buffer starts with, and all fit int16_t.
Sample(k) == k + 1

\* Channel of the stream element with value v: 0 left, 1 right (the stream
\* is interleaved left, right, left, ... from element 0).
Channel(v) == (v - 1) % 2

CapInit == [consumed   |-> 0,      \* elements handed over in fragments with data
            nfrag      |-> 0,      \* fragments the backend has queued
            all_even   |-> TRUE,   \* every data fragment had an even length
            all_frames |-> TRUE,   \* ... a whole number of 4-byte frames
            oob        |-> FALSE,  \* a write targeted an index outside buffer
            wraps      |-> 0,      \* times buffer_index was reset to 0
            written    |-> 0,      \* elements written by the copy loop
            peeked     |-> 0,      \* fragments of non-zero length peeked
            dropped    |-> 0,      \* pa_stream_drop calls
            lost       |-> 0,      \* fragments copied or skipped but not dropped
            torn       |-> FALSE]  \* a draw read the buffer during a write to it

\* Loop bound of the copy: the number of 16-bit elements in length bytes.
NumElementsBytes(length) == length
NumElements(length) == length \div 2

\* The wrap test after the increment.
WrapsLate(idx) == idx > BUFFER_SIZE
Wraps(idx) == idx = BUFFER_SIZE

\* One iteration of the copy loop on the loop state
\* st = [buf, idx, oob, wraps, written], storing element v.
CopyStep(st, v) ==
    LET inside == st.idx \in 0 .. (BUFFER_SIZE - 1)
        next   == st.idx + 1
    IN  [buf     |-> IF inside THEN [st.buf EXCEPT ![st.idx] = v] ELSE st.buf,
         idx     |-> IF Wraps(next) THEN 0 ELSE next,
         oob     |-> st.oob \/ ~inside,
         wraps   |-> st.wraps + (IF Wraps(next) THEN 1 ELSE 0),
         written |-> st.written + 1]

\* Iterations i .. n-1 of the loop; data[i] is element base + i of the stream.
RECURSIVE CopyRun(_, _, _, _)
CopyRun(st, base, i, n) ==
    IF i >= n THEN st
    ELSE LET nx == CopyStep(st, Sample(base + i))
         IN  IF nx.written > st.written THEN CopyRun(nx, base, i + 1, n) ELSE nx

\* The whole loop, run in stretches of LoopStretch iterations (the evaluator's
\* stack does not hold one frame per element of a 2052-byte fragment).
LoopStretch == 64
RECURSIVE CopyLoop(_, _, _, _)
CopyLoop(st, base, i, n) ==
    IF n - i <= LoopStretch THEN CopyRun(st, base, i, n)
    ELSE LET nx == CopyRun(st, base, i, i + LoopStretch)
         IN  IF nx.written > st.written
             THEN CopyLoop(nx, base, i + LoopStretch, n) ELSE nx

StreamConnected == pa_stream = "live" /\ stream_state = "READY"

\* The backend queues the next fragment of the stream: data, or a hole.
BackendDeliver ==
    /\ pc # "done"
    /\ StreamConnected
    /\ head = NoFrag
    /\ cap.nfrag < MaxFragments
    /\ \E len \in lens, d \in BOOLEAN :
          head' = [data |-> d, length |-> len]
    /\ cap' = [cap EXCEPT !.nfrag = @ + 1]
    /\ UNCHANGED <<variant, frame, glVars,
                   argVars, mainVars, paVars, sdlVars, thVars,
                   buffer, buffer_index, lens, deltas, elapsed, log, failure>>

\* The callbacks are called from pa_mainloop_iterate, which main calls: they
\* run while main is inside that call, and nowhere else.
DispatchingAnywhere ==
    pc \in {"loop_iterate", "loop_ticks", "loop_draw", "loop_events"}
Dispatching == pc = "loop_iterate"

\* length > 0 && pa_stream_drop(stream): whether drop is called
DropsDataOnly(data, length) == data /\ length > 0
Drops(data, length) == length > 0

\* handle_stream_read
HandleStreamRead ==
    /\ Dispatching
    /\ variant \in EventVariants
    /\ StreamConnected
    /\ \E peek_ok \in BOOLEAN, drop_ok \in BOOLEAN :
        IF ~peek_ok
        THEN /\ drop_ok
             /\ failure' = "peek"
             /\ errpa(pa_stream, pa_context, pa_mainloop, log)
             /\ UNCHANGED <<buffer, buffer_index, head, cap>>
        ELSE LET data   == head.data
                 length == head.length
                 st0 == [buf |-> buffer, idx |-> buffer_index,
                         oob |-> cap.oob, wraps |-> cap.wraps,
                         written |-> cap.written]
                 st1 == IF data
                        THEN CopyLoop(st0, cap.consumed, 0, NumElements(length))
                        ELSE st0
                 drop == Drops(data, length)
                 cap1 == [cap EXCEPT
                            !.consumed   = IF data THEN @ + length \div 2 ELSE @,
                            !.all_even   = @ /\ (data => length % 2 = 0),
                            !.all_frames = @ /\ (data => length % 4 = 0),
                            !.oob        = st1.oob,
                            !.wraps      = st1.wraps,
                            !.written    = st1.written,
                            !.peeked     = @ + (IF length > 0 THEN 1 ELSE 0),
                            !.dropped    = @ + (IF drop THEN 1 ELSE 0)]
             IN  /\ (~drop => drop_ok)
                 /\ buffer' = st1.buf
                 /\ buffer_index' = st1.idx
                 /\ IF drop /\ ~drop_ok
                    THEN /\ failure' = "drop"
                         /\ head' = head
                         /\ cap' = [cap1 EXCEPT !.lost = @ + 1]
                         /\ errpa(pa_stream, pa_context,
                                     pa_mainloop, log)
                    ELSE /\ head' = IF drop THEN NoFrag ELSE head
                         /\ cap' = cap1
                         /\ UNCHANGED <<pc, status, sdlVars, pa_stream,
                                        pa_context, pa_mainloop, log, failure>>
    /\ UNCHANGED <<variant, frame, glVars,
                   argVars, last_time, ticks, ctx_state,
                   stream_state, default_sink, info_pending, target, connects,
                   readies, thVars, lens, deltas, elapsed>>

-----------------------------------------------------------------------------
(* main: startup *)

\* What the uninitialized locals r, g, b of parse_foreground may hold.
JunkLocals == {[r |-> 0, g |-> 0, b |-> 0], [r |-> 4096, g |-> 77, b |-> 300]}

\* What main does with the outcome r of parse_args: the globals it set, and
\* the exit it took if any.
ParseArgsReturn(r) ==
    /\ fail' = r.fail /\ diags' = r.diags
    /\ geometry' = r.geometry /\ opacity' = r.opacity
    /\ color' = r.color /\ rainbow' = r.rainbow
    /\ sink' = r.sink
    /\ IF r.exit # NoStatus
       THEN ExitWith(r.exit, pa_stream, pa_context, pa_mainloop, log)
       ELSE /\ pc' = IF variant \in EventVariants
                     THEN "init_pulse" ELSE "sdl_init"
            /\ UNCHANGED <<status, sdlVars, pa_stream, pa_context,
                           pa_mainloop, log>>

\* parse_args(argc, argv), with the exits it takes.
ParseArgs ==
    /\ pc = "parse_args"
    /\ \E junk \in JunkLocals :
        ParseArgsReturn(parse_args(variant, argv, junk))
    /\ UNCHANGED <<variant, frame, glVars,
                   argv, last_time, ticks, ctx_state, stream_state,
                   default_sink, info_pending, target, connects, readies,
                   thVars, bufVars, lens, deltas, elapsed, failure>>

\* init_pulse: mainloop, context, connect; each failure is errpa/errpax.
InitPulse ==
    /\ pc = "init_pulse"
    /\ \E res \in {"ok", "pa_mainloop_new", "pa_context_new", "pa_context_connect"} :
        LET lg1 == log \o <<"pa_mainloop_new">>
            lg2 == lg1 \o <<"pa_context_new">>
        IN  CASE res = "ok" ->
                   /\ pa_mainloop' = "live" /\ pa_context' = "live"
                   /\ ctx_state' = "CONNECTING"
                   /\ log' = lg2
                   /\ pc' = "sdl_init"
                   /\ UNCHANGED <<status, sdlVars, pa_stream, failure>>
              [] res = "pa_mainloop_new" ->
                   /\ failure' = res
                   /\ ctx_state' = ctx_state
                   /\ errpa(NULL, NULL, NULL, log)
              [] res = "pa_context_new" ->
                   /\ failure' = res
                   /\ ctx_state' = ctx_state
                   /\ errpa(NULL, NULL, "live", lg1)
              [] res = "pa_context_connect" ->
                   /\ failure' = res
                   /\ ctx_state' = "FAILED"
                   /\ errpa(NULL, "live", "live", lg2)
    /\ UNCHANGED <<variant, frame, glVars,
                   argVars, last_time, ticks, stream_state,
                   default_sink, info_pending, target, connects, readies,
                   thVars, bufVars, lens, deltas, elapsed>>

\* SDL_Init, SDL_CreateWindow (and SDL_SetWindowOpacity, which only warns),
\* SDL_GL_CreateContext: each failure is errx.
SdlInit ==
    /\ pc = "sdl_init"
    /\ \E ok \in BOOLEAN :
        IF ok THEN /\ sdl' = "on" /\ pc' = "create_window"
                   /\ log' = log \o <<"SDL_Init">>
                   /\ UNCHANGED <<status, window, context, pa_stream,
                                  pa_context, pa_mainloop, failure>>
        ELSE /\ failure' = "SDL_Init"
             /\ ExitWith(EXIT_FAILURE, pa_stream, pa_context, pa_mainloop, log)
    /\ UNCHANGED <<variant, frame, glVars,
                   argVars, last_time, ticks, ctx_state, stream_state,
                   default_sink, info_pending, target, connects, readies,
                   thVars, bufVars, lens, deltas, elapsed>>

CreateWindow ==
    /\ pc = "create_window"
    /\ \E ok \in BOOLEAN :
        IF ok THEN /\ window' = "live" /\ pc' = "create_context"
                   /\ log' = log \o <<"SDL_CreateWindow">>
                   /\ UNCHANGED <<status, sdl, context, pa_stream,
                                  pa_context, pa_mainloop, failure>>
        ELSE /\ failure' = "SDL_CreateWindow"
             /\ ExitWith(EXIT_FAILURE, pa_stream, pa_context, pa_mainloop, log)
    /\ UNCHANGED <<variant, frame, glVars,
                   argVars, last_time, ticks, ctx_state, stream_state,
                   default_sink, info_pending, target, connects, readies,
                   thVars, bufVars, lens, deltas, elapsed>>

CreateContext ==
    /\ pc = "create_context"
    /\ \E ok \in BOOLEAN :
        IF ok THEN /\ context' = "live"
                   /\ pc' = IF variant \in EventVariants
                            THEN "loop_iterate" ELSE "pthread_create"
                   /\ log' = log \o <<"SDL_GL_CreateContext">>
                   /\ UNCHANGED <<status, sdl, window, pa_stream,
                                  pa_context, pa_mainloop, failure>>
        ELSE /\ failure' = "SDL_GL_CreateContext"
             /\ ExitWith(EXIT_FAILURE, pa_stream, pa_context, pa_mainloop, log)
    /\ UNCHANGED <<variant, frame, glVars,
                   argVars, last_time, ticks, ctx_state, stream_state,
                   default_sink, info_pending, target, connects, readies,
                   thVars, bufVars, lens, deltas, elapsed>>

\* pthread_create(&thread, NULL, sample, NULL); last_time = 0.
PthreadCreate ==
    /\ pc = "pthread_create"
    /\ variant = "thread"
    /\ \E ok \in BOOLEAN :
        IF ok THEN /\ th_pc' = "open" /\ pc' = "loop_ticks"
                   /\ log' = log \o <<"pthread_create">>
                   /\ UNCHANGED <<status, sdlVars, pa_stream, pa_context,
                                  pa_mainloop, failure>>
        ELSE /\ failure' = "pthread_create"
             /\ th_pc' = th_pc
             /\ ExitWith(EXIT_FAILURE, pa_stream, pa_context, pa_mainloop, log)
    /\ UNCHANGED <<variant, frame, glVars,
                   argVars, last_time, ticks, ctx_state, stream_state,
                   default_sink, info_pending, target, connects, readies,
                   pulse, run, rd_pos, bufVars, lens, deltas, elapsed>>

-----------------------------------------------------------------------------
(* main: the loop *)

\* pa_mainloop_iterate(pa.mainloop, false, NULL) returns; the callbacks it
\* dispatched are the Handle... actions below.
IterateReturn ==
    /\ pc = "loop_iterate"
    /\ \E ok \in BOOLEAN :
        IF ok THEN /\ pc' = "loop_ticks"
                   /\ UNCHANGED <<status, sdlVars, pa_stream, pa_context,
                                  pa_mainloop, log, failure>>
        ELSE /\ failure' = "pa_mainloop_iterate"
             /\ errpa(pa_stream, pa_context, pa_mainloop, log)
    /\ UNCHANGED <<variant, frame, glVars,
                   argVars, last_time, ticks, ctx_state, stream_state,
                   default_sink, info_pending, target, connects, readies,
                   thVars, bufVars, lens, deltas, elapsed>>

\* Nothing swapped yet: the time runs from SDL_Init (last_time = 0).
FrameInit == [since |-> 0, waited |-> 0, cleared |-> FALSE]

\* A 32-bit unsigned int, kept as two 16-bit halves [hi, lo] (the evaluator's
\* integers end below 2^32).
HALF_RANGE == 65536
U32(n) == [hi |-> 0, lo |-> n]
\* a + n modulo 2^32, for 0 <= n < 2^16
U32Add(a, n) ==
    LET l == a.lo + n
    IN  [hi |-> (a.hi + l \div HALF_RANGE) % HALF_RANGE, lo |-> l % HALF_RANGE]
U32Gt(a, b) == a.hi > b.hi \/ (a.hi = b.hi /\ a.lo > b.lo)

\* The gate (i = SDL_GetTicks()) > last_time + 16, in unsigned arithmetic.
GateOpen(i, last) == U32Gt(i, U32Add(last, FRAME_TICKS))

\* if ((i = SDL_GetTicks()) > last_time + 16) { swap; clear; last_time = i; }
LoopTicks ==
    /\ pc = "loop_ticks"
    /\ \E d \in deltas :
        /\ d = 0 \/ elapsed + d <= MaxElapsed
        /\ LET i == U32Add(ticks, d)
           IN  /\ ticks' = i
               /\ last_time' = IF GateOpen(i, last_time) THEN i ELSE last_time
               /\ frame' = [since   |-> IF GateOpen(i, last_time) THEN 0
                                        ELSE frame.since + d,
                            waited  |-> frame.since + d,
                            cleared |-> GateOpen(i, last_time)]
        /\ elapsed' = elapsed + d
    /\ pc' = "loop_draw"
    /\ UNCHANGED <<variant, glVars, argVars, status, paVars, sdlVars, thVars,
                   bufVars, lens, deltas, log, failure>>

\* Drawing.  A float has a 24-bit significand: values in [0, 1] are kept in
\* units of 2^-23 (ONE is 1.0), hues in units of 2^-15 degree, the distance
\* between neighbouring floats from 256 up to 512 (HUE_UNIT is one degree).
ONE == 2 ^ 23
HUE_UNIT == 2 ^ 15
NoHue == 0 - 1
\* OpenGL's initial current color is (1, 1, 1).
GlInit == [r |-> 1, g |-> 1, b |-> 1, scale |-> 1, set |-> FALSE]
glColor3f(r, g, b, scale) ==
    [r |-> r, g |-> g, b |-> b, scale |-> scale, set |-> TRUE]

\* Distance, in units of 2^-23, between neighbouring floats at q (q >= 0).
FloatGrid(q) == IF q >= 8 * ONE THEN 8
                ELSE IF q >= 4 * ONE THEN 4
                ELSE IF q >= 2 * ONE THEN 2 ELSE 1
\* n / d rounded to the nearest multiple of g.
RoundTo(n, d, g) ==
    IF g % 2 = 0 THEN ((n + d * (g \div 2)) \div (d * g)) * g
                 ELSE ((2 * n + d * g) \div (2 * d * g)) * g
\* hue /= 60.0: the quotient, rounded to a float, in units of 2^-23.
\* (2^23 / (60 * 2^15) = 64 / 15)
Div60(h) == RoundTo(h * 64, 15, FloatGrid((h * 64) \div 15))

\* if (hue >= 360.0) hue = 0;
ClampAbove(h) == IF h > 360 * HUE_UNIT THEN 0 ELSE h
Clamp(h) == IF h >= 360 * HUE_UNIT THEN 0 ELSE h

\* switch(i): the six cases; no default, so any other i sets no color.
HueCase(cur, i, f, q) ==
    CASE i = 0 -> glColor3f(ONE, f, 0, ONE)
      [] i = 1 -> glColor3f(q, ONE, 0, ONE)
      [] i = 2 -> glColor3f(0, ONE, f, ONE)
      [] i = 3 -> glColor3f(0, q, ONE, ONE)
      [] i = 4 -> glColor3f(f, 0, ONE, ONE)
      [] i = 5 -> glColor3f(ONE, 0, q, ONE)
      [] OTHER -> [cur EXCEPT !.set = FALSE]

\* i = (long)hue; f = hue - i; q = 1.0 - f;  (both differences are exact)
HueSector(cur, h60, i) == HueCase(cur, i, h60 - i * ONE, ONE - (h60 - i * ONE))

\* set_hue(hue), with cur the current color
set_hue(cur, h) == HueSector(cur, Div60(Clamp(h)), Div60(Clamp(h)) \div ONE)

\* The hues sqrtf(x * x + y * y) * 360.0 can give: never negative, and up to
\* 32768 / 30000 * sqrt(2) * 360 < 557 for the samples farthest out.  Taken on
\* the grid of HUE_UNIT: around every whole degree, and half way between.
HueOffsets == {0 - 1, 0, 1, HUE_UNIT \div 2}
DrawHues == {h \in {d * HUE_UNIT + e : d \in 0 .. MaxHueDegrees, e \in HueOffsets}
               : h >= 0}

\* A pa_simple_read of the capture thread has stored part of the buffer.
\* (handle_stream_read runs inside pa_mainloop_iterate from start to end: no
\* copy of it is ever in progress when main is elsewhere.)
WriteInProgress == variant = "thread" /\ th_pc = "read" /\ rd_pos > 0

\* draw_buffer(): every point takes the fixed color or the hue of its
\* distance from the centre; hue and gl keep those of the last point.  The
\* older versions draw with the color OpenGL starts with.  The buffer is
\* read without any lock.
LoopDraw ==
    /\ pc = "loop_draw"
    /\ pc' = "loop_events"
    /\ IF variant # "info" THEN UNCHANGED glVars
       ELSE IF rainbow
            THEN \E h \in DrawHues : hue' = h /\ gl' = set_hue(gl, h)
            ELSE hue' = hue /\ gl' = glColor3f(color.r, color.g, color.b, 255)
    /\ cap' = [cap EXCEPT !.torn = @ \/ WriteInProgress]
    /\ UNCHANGED <<variant, frame, argVars, status, last_time, ticks, paVars,
                   sdlVars, thVars, buffer, buffer_index, head, lens, deltas,
                   elapsed, log, failure>>

\* while (SDL_PollEvent(&event)) ...: a resize only sets the viewport; a quit
\* returns 0 from main (mainloop versions) or clears run and goes to join.
LoopEvents ==
    /\ pc = "loop_events"
    /\ \E ev \in {"none", "resize", "quit"} :
        CASE ev = "none" ->
               /\ pc' = IF variant \in EventVariants
                        THEN "loop_iterate" ELSE "loop_ticks"
               /\ UNCHANGED <<status, sdlVars, pa_stream, pa_context,
                              pa_mainloop, log, run>>
          [] ev = "resize" ->
               UNCHANGED <<pc, status, sdlVars, pa_stream, pa_context,
                           pa_mainloop, log, run>>
          [] ev = "quit" ->
               IF variant \in EventVariants
               THEN /\ run' = run
                    /\ ExitWith(EXIT_SUCCESS, pa_stream, pa_context,
                                pa_mainloop, log)
               ELSE /\ run' = FALSE
                    /\ pc' = "join"
                    /\ UNCHANGED <<status, sdlVars, pa_stream, pa_context,
                                   pa_mainloop, log>>
    /\ UNCHANGED <<variant, frame, glVars,
                   argVars, last_time, ticks, ctx_state, stream_state,
                   default_sink, info_pending, target, connects, readies,
                   th_pc, pulse, rd_pos, bufVars, lens, deltas, elapsed,
                   failure>>

\* pthread_join(thread, NULL) returns once sample() has returned; return 0.
Join ==
    /\ pc = "join"
    /\ th_pc = "done"
    /\ ExitWith(EXIT_SUCCESS, pa_stream, pa_context, pa_mainloop,
                log \o <<"pthread_join">>)
    /\ UNCHANGED <<variant, frame, glVars,
                   argVars, last_time, ticks, ctx_state, stream_state,
                   default_sink, info_pending, target, connects, readies,
                   thVars, bufVars, lens, deltas, elapsed, failure>>

-----------------------------------------------------------------------------
(* Callbacks of the mainloop versions *)

\* Context states a notification can announce after state s.
NextContextStates(s) ==
    CASE s = "CONNECTING"   -> {"AUTHORIZING", "FAILED"}
      [] s = "AUTHORIZING"  -> {"SETTING_NAME", "FAILED"}
      [] s = "SETTING_NAME" -> {"READY", "FAILED"}
      [] s = "READY"        -> {"FAILED"}
      [] OTHER              -> {}

NextStreamStates(s) ==
    CASE s = "CREATING" -> {"READY", "FAILED"}
      [] s = "READY"    -> {"FAILED"}
      [] OTHER          -> {}

\* pa_stream_new, the two callbacks, pa_stream_connect_record(name): the
\* tail of handle_server_info, and of the READY case in the older version.
ConnectRecord(name, lg) ==
    \E res \in {"ok", "pa_stream_new", "pa_stream_connect_record"} :
        LET lg1 == lg \o <<"pa_stream_new">>
            lg2 == lg1 \o <<"pa_stream_connect_record">>
        IN  CASE res = "ok" ->
                   /\ pa_stream' = "live" /\ stream_state' = "CREATING"
                   /\ target' = name /\ connects' = connects + 1
                   /\ log' = lg2
                   /\ UNCHANGED <<pc, status, sdlVars, pa_context, pa_mainloop,
                                  failure>>
              [] res = "pa_stream_new" ->
                   /\ failure' = res
                   /\ UNCHANGED <<stream_state, target, connects>>
                   /\ errpa(NULL, pa_context, pa_mainloop, lg1)
              [] res = "pa_stream_connect_record" ->
                   /\ failure' = res
                   /\ stream_state' = "FAILED"
                   /\ target' = name /\ connects' = connects + 1
                   /\ errpa("live", pa_context, pa_mainloop,
                               lg2)

\* The name the stream is connected to when the server-info reply arrives.
SinkAsGiven(snk, dflt) == snk
SinkOrMonitor(snk, dflt) == IF snk = NoSink THEN Monitor(dflt) ELSE snk

\* handle_context_state
HandleContextState ==
    /\ Dispatching
    /\ variant \in EventVariants
    /\ pa_context = "live"
    /\ \E st \in NextContextStates(ctx_state) :
        /\ ctx_state' = st
        /\ CASE st = "READY" /\ variant = "info" ->
                  /\ info_pending' = TRUE
                  /\ readies' = readies + 1
                  /\ log' = log \o <<"pa_context_get_server_info">>
                  /\ UNCHANGED <<pc, status, sdlVars, pa_stream, pa_context,
                                 pa_mainloop, stream_state, target, connects,
                                 failure>>
             [] st = "READY" /\ variant = "loop" ->
                  /\ readies' = readies + 1
                  /\ info_pending' = info_pending
                  /\ ConnectRecord(sink, log)
             [] st = "FAILED" ->
                  /\ failure' = "context_failed"
                  /\ UNCHANGED <<info_pending, readies, stream_state, target,
                                 connects>>
                  /\ errpa(pa_stream, pa_context, pa_mainloop,
                              log)
             [] OTHER ->
                  UNCHANGED <<pc, status, sdlVars, pa_stream, pa_context,
                              pa_mainloop, stream_state, info_pending, target,
                              connects, readies, log, failure>>
    /\ UNCHANGED <<variant, frame, glVars,
                   argVars, last_time, ticks, default_sink, thVars,
                   bufVars, lens, deltas, elapsed>>

\* handle_server_info (src/vscope.c only)
HandleServerInfo ==
    /\ Dispatching
    /\ variant = "info"
    /\ pa_context = "live" /\ ctx_state = "READY"
    /\ info_pending
    /\ info_pending' = FALSE
    /\ sink' = SinkOrMonitor(sink, default_sink)
    /\ ConnectRecord(sink', log \o <<"handle_server_info">>)
    /\ UNCHANGED <<variant, frame, glVars,
                   argv, fail, diags, geometry, opacity, color,
                   rainbow, last_time, ticks, ctx_state, default_sink, readies,
                   thVars, bufVars, lens, deltas, elapsed>>

\* handle_stream_state
HandleStreamState ==
    /\ Dispatching
    /\ variant \in EventVariants
    /\ pa_stream = "live"
    /\ \E st \in NextStreamStates(stream_state) :
        /\ stream_state' = st
        /\ IF st = "FAILED"
           THEN /\ failure' = "stream_failed"
                /\ errpa(pa_stream, pa_context, pa_mainloop,
                            log)
           ELSE UNCHANGED <<pc, status, sdlVars, pa_stream, pa_context,
                            pa_mainloop, log, failure>>
    /\ UNCHANGED <<variant, frame, glVars,
                   argVars, last_time, ticks, ctx_state, default_sink,
                   info_pending, target, connects, readies, thVars, bufVars,
                   lens, deltas, elapsed>>

-----------------------------------------------------------------------------
(* sample(): the capture thread of the blocking version *)

Min(a, b) == IF a <= b THEN a ELSE b

\* pa_simple_new(NULL, "Vectorscope", PA_STREAM_RECORD, sink, ...)
ThreadOpen ==
    /\ variant = "thread" /\ pc # "done"
    /\ th_pc = "open"
    /\ target' = sink
    /\ connects' = connects + 1
    /\ \E ok \in BOOLEAN :
        IF ok THEN /\ pulse' = "live" /\ th_pc' = "test"
                   /\ log' = log \o <<"pa_simple_new">>
                   /\ UNCHANGED <<failure, pc, status, sdlVars, pa_stream,
                                  pa_context, pa_mainloop>>
        ELSE /\ failure' = "pa_simple_new"
             /\ pulse' = pulse
             /\ th_pc' = "done"                     \* warn(...); return NULL
             /\ UNCHANGED <<log, pc, status, sdlVars, pa_stream,
                            pa_context, pa_mainloop>>
    /\ UNCHANGED <<variant, frame, glVars,
                   argVars, last_time, ticks, ctx_state, stream_state,
                   default_sink, info_pending, readies, run, rd_pos, bufVars,
                   lens, deltas, elapsed>>

\* What the loop test while (run) sees.
RunIgnored(r) == TRUE
RunTest(r) == r

\* while (run): start the next read, or leave the loop and free the handle.
ThreadTest ==
    /\ variant = "thread" /\ pc # "done"
    /\ th_pc = "test"
    /\ IF RunTest(run)
       THEN /\ th_pc' = "read" /\ rd_pos' = 0
            /\ UNCHANGED <<pulse, log>>
       ELSE /\ th_pc' = "done" /\ pulse' = "freed"
            /\ log' = log \o <<"pa_simple_free">>
            /\ UNCHANGED rd_pos
    /\ UNCHANGED <<variant, frame, glVars,
                   argVars, mainVars, paVars, sdlVars, run, bufVars,
                   lens, deltas, elapsed, failure>>

\* The buffer after pa_simple_read stored the first n elements of a fragment
\* at offset pos of the destination; element i of the fragment is element
\* base + i of the stream.
StoreChunk(buf, pos, n, base) ==
    [j \in 0 .. (BUFFER_SIZE - 1) |->
        IF j \in pos .. (pos + n - 1) THEN Sample(base + (j - pos)) ELSE buf[j]]

\* pa_simple_read(pulse, buffer, sizeof(buffer), &error) in progress: the
\* next fragment of the stream arrives and is stored behind what this read
\* has stored; the call returns 0 once the buffer is full.
ThreadReadData ==
    /\ variant = "thread" /\ pc # "done"
    /\ th_pc = "read"
    /\ cap.nfrag < MaxFragments
    /\ \E len \in lens :
        LET n == Min(len \div 2, BUFFER_SIZE - rd_pos)
        IN  /\ buffer' = StoreChunk(buffer, rd_pos, n, cap.consumed)
            /\ cap' = [cap EXCEPT !.nfrag = @ + 1, !.consumed = @ + n,
                                  !.written = @ + n]
            /\ IF rd_pos + n = BUFFER_SIZE
               THEN th_pc' = "test" /\ rd_pos' = 0
               ELSE th_pc' = "read" /\ rd_pos' = rd_pos + n
    /\ UNCHANGED <<variant, frame, glVars,
                   argVars, mainVars, paVars, sdlVars, pulse, run,
                   buffer_index, head, lens, deltas, elapsed, log, failure>>

\* A failed read that ends the process: err(EXIT_FAILURE, ...) for warn(...).
ThreadReadFailsFatal ==
    /\ variant = "thread" /\ pc # "done"
    /\ th_pc = "read"
    /\ failure' = "pa_simple_read"
    /\ ExitWith(EXIT_FAILURE, pa_stream, pa_context, pa_mainloop, log)
    /\ UNCHANGED <<variant, frame, glVars,
                   argVars, last_time, ticks, ctx_state, stream_state,
                   default_sink, info_pending, target, connects, readies,
                   thVars, bufVars, lens, deltas, elapsed>>

\* pa_simple_read fails: warn, pa_simple_free, return NULL.
ThreadReadFails ==
    /\ variant = "thread" /\ pc # "done"
    /\ th_pc = "read"
    /\ failure' = "pa_simple_read"
    /\ pulse' = "freed"
    /\ log' = log \o <<"pa_simple_free">>
    /\ th_pc' = "done"
    /\ UNCHANGED <<variant, frame, glVars,
                   argVars, mainVars, paVars, sdlVars, run, rd_pos,
                   bufVars, lens, deltas, elapsed>>

-----------------------------------------------------------------------------
(* The whole program *)

Opt(name, toks) == [opt |-> name, val |-> toks]

\* Command lines of the runs of the whole program.
MainArgvs == {<<>>,
              <<Opt("operand", <<"mic">>)>>,
              <<Opt("geometry", <<"12", "x", "7">>)>>,
              <<Opt("geometry", <<"x">>)>>,
              <<Opt("help", <<>>)>>}

InitGlobals ==
    /\ fail = FALSE /\ diags = 0
    /\ geometry = DefaultGeometry /\ opacity = DefaultOpacity
    /\ color = White /\ rainbow = FALSE
    /\ sink = NoSink
    /\ pc = "parse_args" /\ status = NoStatus /\ last_time = U32(0) /\ ticks = U32(0)
    /\ pa_mainloop = NULL /\ pa_context = NULL /\ pa_stream = NULL
    /\ ctx_state = "UNCONNECTED" /\ stream_state = "UNCONNECTED"
    /\ default_sink = <<"out">> /\ info_pending = FALSE
    /\ target = NoSink /\ connects = 0 /\ readies = 0
    /\ sdl = "off" /\ window = NULL /\ context = NULL
    /\ th_pc = "none" /\ pulse = NULL /\ run = TRUE /\ rd_pos = 0
    /\ buffer = ZeroBuffer /\ buffer_index = 0 /\ head = NoFrag
    /\ hue = NoHue /\ gl = GlInit /\ frame = FrameInit
    /\ cap = CapInit /\ elapsed = 0
    /\ log = <<>>
    /\ failure = "none"

Init ==
    /\ variant \in Variants
    /\ argv \in MainArgvs
    /\ lens = IF variant = "thread" THEN {BUFFER_SIZE} ELSE {8}
    /\ deltas = {0, FRAME_TICKS + 1}
    /\ InitGlobals

Next ==
    \/ ParseArgs \/ InitPulse \/ SdlInit \/ CreateWindow \/ CreateContext
    \/ PthreadCreate
    \/ IterateReturn \/ LoopTicks \/ LoopDraw \/ LoopEvents \/ Join
    \/ HandleContextState \/ HandleServerInfo \/ HandleStreamState
    \/ BackendDeliver \/ HandleStreamRead
    \/ ThreadOpen \/ ThreadTest \/ ThreadReadData \/ ThreadReadFails

Spec == Init /\ [][Next]_vars

-----------------------------------------------------------------------------
(* The capture path alone: the program is in its main loop, the stream is
   connected, and the backend feeds fragments. *)

StartupLog == <<"pa_mainloop_new", "pa_context_new", "SDL_Init",
                "SDL_CreateWindow", "SDL_GL_CreateContext"
              >> \o (IF variant = "info"
                     THEN <<"pa_context_get_server_info", "handle_server_info">>
                     ELSE <<>>)
                \o <<"pa_stream_new", "pa_stream_connect_record">>

InitCapture ==
    /\ variant \in EventVariants
    /\ argv = <<>> /\ fail = FALSE /\ diags = 0
    /\ geometry = DefaultGeometry /\ opacity = DefaultOpacity
    /\ color = White /\ rainbow = FALSE
    /\ sink = IF variant = "info" THEN Monitor(<<"out">>) ELSE NoSink
    /\ pc = "loop_iterate" /\ status = NoStatus /\ last_time = U32(0) /\ ticks = U32(0)
    /\ pa_mainloop = "live" /\ pa_context = "live" /\ pa_stream = "live"
    /\ ctx_state = "READY" /\ stream_state = "READY"
    /\ default_sink = <<"out">> /\ info_pending = FALSE
    /\ target = sink /\ connects = 1 /\ readies = 1
    /\ sdl = "on" /\ window = "live" /\ context = "live"
    /\ th_pc = "none" /\ pulse = NULL /\ run = TRUE /\ rd_pos = 0
    /\ buffer = ZeroBuffer /\ buffer_index = 0 /\ head = NoFrag
    /\ hue = NoHue /\ gl = GlInit /\ frame = FrameInit
    /\ lens = FragLengths /\ deltas = {0}
    /\ cap = CapInit /\ elapsed = 0
    /\ log = StartupLog
    /\ failure = "none"

NextCapture == BackendDeliver \/ HandleStreamRead

SpecCapture == InitCapture /\ [][NextCapture]_vars

-----------------------------------------------------------------------------
(* C1: in the event-driven capture path the write cursor stays in
   0 .. BUFFER_SIZE-1 after every callback, every write of the copy loop
   targets an index inside the buffer, and the cursor is reset to 0 exactly
   when it reaches BUFFER_SIZE (as many resets as whole buffers written). *)
C1_CursorInBounds ==
    /\ buffer_index \in 0 .. (BUFFER_SIZE - 1)
    /\ ~cap.oob
    /\ DOMAIN buffer = 0 .. (BUFFER_SIZE - 1)
    /\ cap.wraps = cap.written \div BUFFER_SIZE
    /\ buffer_index = cap.written - BUFFER_SIZE * cap.wraps

\* One fragment longer than the buffer has been copied, wrapping the cursor.
C1_Witness ==
    /\ cap.nfrag = 1
    /\ cap.written > BUFFER_SIZE
    /\ cap.wraps = 1
    /\ buffer_index > 0

Max(a, b) == IF a >= b THEN a ELSE b

(* C2: with N the number of 16-bit elements delivered in data fragments of
   even length, the cursor is N mod BUFFER_SIZE and the buffer holds the last
   min(N, BUFFER_SIZE) elements of the stream, element k at index
   k mod BUFFER_SIZE; when every fragment is a whole number of stereo frames,
   even indexes hold left samples and odd indexes right samples. *)
C2_RollingWindow ==
    cap.all_even =>
        /\ buffer_index = cap.consumed % BUFFER_SIZE
        /\ \A k \in Max(0, cap.consumed - BUFFER_SIZE) .. (cap.consumed - 1) :
              buffer[k % BUFFER_SIZE] = Sample(k)
        /\ cap.all_frames =>
              \A i \in 0 .. (BUFFER_SIZE - 1) :
                  buffer[i] # 0 => Channel(buffer[i]) = i % 2

\* More than a buffer of whole frames has been delivered and the window has
\* wrapped to a cursor inside the buffer.
C2_Witness ==
    /\ cap.all_frames
    /\ cap.consumed > BUFFER_SIZE
    /\ buffer_index > 0
    /\ buffer[0] = Sample(BUFFER_SIZE)

-----------------------------------------------------------------------------
(* Failures of the audio path *)

\* Failures to connect to the backend, and the stream failure notification,
\* in the mainloop versions.
ConnectFailures == {"pa_context_connect", "context_failed", "pa_stream_new",
                    "pa_stream_connect_record", "stream_failed"}

Fatal == pc = "done" /\ status = EXIT_FAILURE

\* C3 as stated: in every version, a connect failure (the blocking client's
\* failure to open included) or a stream failure notification has ended the
\* process with a non-zero status.
C3_FatalInEveryVariant ==
    failure \in ConnectFailures \cup {"pa_simple_new"} => Fatal

(* C3: in the mainloop versions a failure to connect (pa_context_connect,
   the context entering FAILED, pa_stream_new, pa_stream_connect_record) and
   a stream failure notification end the process with a non-zero status, so
   the render loop never runs after one; in the threaded version a failed
   pa_simple_new only ends the capture thread, which holds no handle, and the
   process does not end with a failure status. *)
C3_FatalInMainloopVariants ==
    /\ failure \in ConnectFailures => variant \in EventVariants /\ Fatal
    /\ failure = "pa_simple_new" =>
          /\ variant = "thread"
          /\ th_pc = "done" /\ pulse = NULL
          /\ status # EXIT_FAILURE

\* The stream of a mainloop version was connected and then announced FAILED.
C3_Witness ==
    /\ failure = "stream_failed"
    /\ connects = 1
    /\ Fatal

-----------------------------------------------------------------------------
(* The source the stream is connected to *)

Named == Operands(argv)

\* Position of the first occurrence of call c in the log, 0 if none.
FirstCall(c) ==
    IF \E i \in DOMAIN log : log[i] = c
    THEN CHOOSE i \in DOMAIN log : log[i] = c /\ \A j \in 1 .. (i - 1) : log[j] # c
    ELSE 0

\* The server-info reply arrived before the stream was created.
ReplyBeforeStream ==
    /\ FirstCall("handle_server_info") > 0
    /\ FirstCall("handle_server_info") < FirstCall("pa_stream_new")

\* C4 as stated: whenever the stream has been connected, it is to the sink
\* named on the command line or else to the default sink's monitor, after
\* READY and the server-info reply, at most once per READY notification.
C4_MonitorInEveryVariant ==
    connects > 0 =>
        /\ target = IF Len(Named) = 1 THEN Named[1].val
                    ELSE Monitor(default_sink)
        /\ readies > 0 /\ ReplyBeforeStream
        /\ connects <= readies

(* C4: the version that queries the server (src/vscope.c) connects the
   stream to the sink named on the command line, or else to
   '<default_sink_name>.monitor' taken from the server-info reply; it creates
   and connects the stream only after READY and the reply, at most once per
   READY.  The older mainloop version connects on READY itself, without a
   query, and like the threaded version passes the sink as given: NULL (the
   server's choice) when none is named. *)
C4_MonitorOnlyWithServerInfo ==
    /\ connects > 0 =>
          /\ target = IF Len(Named) = 1 THEN Named[1].val
                      ELSE IF variant = "info" THEN Monitor(default_sink)
                      ELSE NoSink
          /\ variant = "info" => ReplyBeforeStream /\ ~info_pending
          /\ variant \in EventVariants =>
                readies > 0 /\ connects <= readies /\ ctx_state # "UNCONNECTED"
    /\ FirstCall("pa_stream_new") > 0 => variant \in EventVariants /\ readies > 0
    /\ FirstCall("handle_server_info") > 0 =>
          /\ variant = "info"
          /\ FirstCall("pa_context_get_server_info") > 0
          /\ FirstCall("pa_context_get_server_info") < FirstCall("handle_server_info")

\* No sink was named and the stream is connected to the default sink's
\* monitor.
C4_Witness ==
    /\ variant = "info" /\ Named = <<>>
    /\ connects = 1 /\ stream_state = "READY"
    /\ target = <<"out", ".monitor">>

-----------------------------------------------------------------------------
(* The order of teardown *)

AudioTeardown == {"pthread_join", "pa_simple_free", "pa_stream_unref",
                  "pa_context_disconnect", "pa_context_unref",
                  "pa_mainloop_free"}
SdlTeardown == {"SDL_GL_DeleteContext", "SDL_DestroyWindow", "SDL_Quit"}

\* The run ended with a quit event: main returned 0 out of its loop.
QuitEnded == pc = "done" /\ status = EXIT_SUCCESS /\ context = "freed"

\* Every call of the set first precedes every call of the set second.
AllBefore(first, second) ==
    \A i, j \in DOMAIN log :
        log[i] \in first /\ log[j] \in second => i < j

\* C5 as stated: in every run that ends by a quit event, every audio
\* teardown step precedes the three SDL teardown calls.
C5_AudioBeforeSdl == QuitEnded => AllBefore(AudioTeardown, SdlTeardown)

(* C5: in a run that ends by a quit event, the threaded version joins the
   capture thread (which has freed its handle) before the exit handler
   destroys the GL context, the window and SDL; the mainloop versions release
   nothing before the exit handler, which makes SDL's three calls first and
   releases the stream, the context and the mainloop after them. *)
C5_TeardownOrder ==
    QuitEnded =>
        /\ \A c \in SdlTeardown : FirstCall(c) > 0
        /\ variant = "thread" =>
              /\ FirstCall("pthread_join") > 0
              /\ AllBefore(AudioTeardown, SdlTeardown)
        /\ variant \in EventVariants =>
              /\ FirstCall("pa_mainloop_free") > 0
              /\ FirstCall("pa_context_unref") > 0
              /\ pa_stream = "freed" => FirstCall("pa_stream_unref") > 0
              /\ AllBefore(SdlTeardown, AudioTeardown)

\* A mainloop version with a connected stream was quit.
C5_Witness ==
    /\ QuitEnded
    /\ variant \in EventVariants
    /\ pa_stream = "freed"
    /\ FirstCall("SDL_Quit") < FirstCall("pa_stream_unref")

-----------------------------------------------------------------------------
(* A failed read in the threaded version *)

ReadFailed == variant = "thread" /\ failure = "pa_simple_read"

\* What holds once pa_simple_read has failed: the thread is gone with its
\* handle freed, the process has not ended with a failure, and a pending
\* join returns.
AfterReadFailure ==
    ReadFailed =>
        /\ th_pc = "done" /\ pulse = "freed"
        /\ status # EXIT_FAILURE
        /\ pc = "done" => status = EXIT_SUCCESS /\ FirstCall("pthread_join") > 0
        /\ pc = "join" => ENABLED Join
        /\ pc \in {"loop_ticks", "loop_draw", "loop_events"} => ENABLED Next

\* C6 as stated: what holds after a failed read, and the failed read is the
\* only failure of the threaded version that does not end the process.
C6_OnlyNonFatalFailure ==
    /\ AfterReadFailure
    /\ variant = "thread" /\ failure \notin {"none", "pa_simple_read"} => Fatal

(* C6: in the threaded version a failed pa_simple_read does not end the
   process (nor does a failed pa_simple_new): the capture thread frees its
   handle and returns, the buffer is never written again, the main thread
   goes on through its loop until a quit event, and then the join returns
   and the process exits with status 0. *)
C6_ReadFailureFreezes ==
    /\ [](AfterReadFailure)
    /\ [][ReadFailed => buffer' = buffer /\ ReadFailed']_vars

\* A read failed after a whole buffer had been stored, and the program was
\* then quit.
C6_Witness ==
    /\ ReadFailed
    /\ cap.written >= BUFFER_SIZE
    /\ buffer[BUFFER_SIZE - 1] = Sample(BUFFER_SIZE - 1)
    /\ pc = "done" /\ status = EXIT_SUCCESS

-----------------------------------------------------------------------------
(* Command lines: option parsing and the startup that follows it *)

MaxArgs == 3

\* Option values sscanf reads nothing from.
BadValues == {<<"x">>, <<"z">>}

\* The elements command lines are made of: every option with a value that
\* parses and one that does not, an option no table holds, and operands.
ArgElements ==
    {Opt("help", <<>>), Opt("version", <<>>), Opt("bogus", <<>>),
     Opt("geometry", <<"12", "x", "7">>), Opt("geometry", <<"x">>),
     Opt("opacity", <<"0.5">>), Opt("opacity", <<"z">>),
     Opt("foreground", <<"FF", "00", "7f">>), Opt("foreground", <<"z">>),
     Opt("operand", <<"mic">>), Opt("operand", <<"aux">>)}

ArgvsUpTo(n) == UNION {[1 .. k -> ArgElements] : k \in 0 .. n}

InitArgs ==
    /\ variant \in Variants
    /\ argv \in ArgvsUpTo(MaxArgs)
    /\ lens = {8}
    /\ deltas = {0}
    /\ InitGlobals

NextArgs ==
    \/ ParseArgs \/ InitPulse \/ SdlInit \/ CreateWindow \/ CreateContext
    \/ PthreadCreate

SpecArgs == InitArgs /\ [][NextArgs]_vars

\* The command line holds a malformed option value, an option the version's
\* table lacks, or more than one operand.
HasParseFailure ==
    \/ \E k \in DOMAIN argv :
          \/ argv[k].opt \notin Options(variant) \cup {"operand"}
          \/ /\ argv[k].opt \in {"geometry", "opacity", "foreground"}
             /\ argv[k].val \in BadValues
    \/ Len(Operands(argv)) > 1

HelpRequested == \E k \in DOMAIN argv : argv[k].opt \in {"help", "version"}

Parsed == pc # "parse_args"

Creations == {"pa_mainloop_new", "pa_context_new", "pa_stream_new",
              "pa_simple_new", "pthread_create", "SDL_Init",
              "SDL_CreateWindow", "SDL_GL_CreateContext"}

NothingCreated ==
    /\ \A i \in DOMAIN log : log[i] \notin Creations
    /\ pa_mainloop = NULL /\ pa_context = NULL /\ pa_stream = NULL
    /\ pulse = NULL /\ th_pc = "none"
    /\ sdl = "off" /\ window = NULL /\ context = NULL

\* C8 as stated: a command line with a parse failure is reported and ends
\* the process with a non-zero status before any resource is created.
C8_FailureAlwaysNonZero ==
    Parsed /\ HasParseFailure =>
        /\ pc = "done" /\ status = EXIT_FAILURE /\ diags > 0
        /\ NothingCreated

(* C8: a command line with a malformed option value, an unknown option or
   more than one operand ends the process in parse_args, before any audio or
   window resource has been created; the failure is reported and the status
   is non-zero unless --help or --version is also on the command line, which
   ends the process with status 0 where getopt meets it. *)
C8_FailureBeforeResources ==
    Parsed /\ HasParseFailure =>
        /\ pc = "done"
        /\ NothingCreated
        /\ ~HelpRequested => status = EXIT_FAILURE /\ fail /\ diags >= 2
        /\ HelpRequested => status = EXIT_SUCCESS

\* Two malformed values and no help: each reported, then the final message.
C8_Witness ==
    /\ Parsed /\ HasParseFailure /\ ~HelpRequested
    /\ variant = "info"
    /\ Len(argv) = 2 /\ Len(Operands(argv)) = 0
    /\ diags = 3
    /\ status = EXIT_FAILURE

\* C9 as stated: status 0 for help or version on an otherwise valid command
\* line, non-zero on every command line with a parse failure.
C9_NonZeroOnAnyFailure ==
    Parsed =>
        /\ HelpRequested /\ ~HasParseFailure => pc = "done" /\ status = EXIT_SUCCESS
        /\ HasParseFailure => pc = "done" /\ status = EXIT_FAILURE

(* C9: option parsing ends with status 0 whenever --help or --version is an
   option of the command line, whatever else the command line holds and in
   whatever order; without them it ends with a non-zero status on every
   command line that contains a parse failure, and does not end the process
   otherwise. *)
C9_ExitStatus ==
    Parsed =>
        /\ HelpRequested => pc = "done" /\ status = EXIT_SUCCESS
        /\ ~HelpRequested /\ HasParseFailure =>
              pc = "done" /\ status = EXIT_FAILURE
        /\ ~HelpRequested /\ ~HasParseFailure =>
              status # EXIT_SUCCESS /\ ~fail
              /\ (status = EXIT_FAILURE => failure # "none")

\* --help behind a malformed value: the diagnostic was printed, the status
\* is 0.
C9_Witness ==
    /\ Parsed /\ HelpRequested
    /\ fail /\ diags = 1
    /\ argv[Len(argv)].opt = "help"
    /\ status = EXIT_SUCCESS

-----------------------------------------------------------------------------
(* parse_geometry on its own: command lines that hold one --geometry *)

MaxTokens == 5

NumTokens == UTokens \cup STokens

\* Texts of up to n tokens in which no number is directly followed by an
\* unsigned number (the two would read as one number).
GeoTexts(n) ==
    {t \in UNION {[1 .. k -> GeoTokens] : k \in 0 .. n} :
        \A i \in 1 .. (Len(t) - 1) :
            ~(t[i] \in NumTokens /\ t[i + 1] \in UTokens)}

InitGeometry ==
    /\ variant \in Variants
    /\ \E t \in GeoTexts(MaxTokens) : argv = <<Opt("geometry", t)>>
    /\ lens = {8}
    /\ deltas = {0}
    /\ InitGlobals

NextGeometry == ParseArgs

SpecGeometry == InitGeometry /\ [][NextGeometry]_vars

\* The text given to --geometry, as tokens.
GeoText == argv[1].val

\* The number a token denotes.
TokenValue(t) ==
    CASE t = "12" -> 12 [] t = "7" -> 7 [] t = "+3" -> 3 [] t = "-4" -> 0 - 4

Accepted == pc # "done"
RejectedGeometry == pc = "done" /\ status = EXIT_FAILURE /\ fail

Size(w, h) == geometry.w = TokenValue(w) /\ geometry.h = TokenValue(h)
Position(x, y) == geometry.x = TokenValue(x) /\ geometry.y = TokenValue(y)
PositionUnset ==
    geometry.x = SDL_WINDOWPOS_UNDEFINED /\ geometry.y = SDL_WINDOWPOS_UNDEFINED
DefaultSize == geometry.w = DEFAULT_WIDTH /\ geometry.h = DEFAULT_HEIGHT

\* The three forms, as token sequences: WxH, WxH+X+Y, +X+Y.  Each of W, H, X
\* and Y is one number; those behind another number carry their sign.
IsSizeForm(t) ==
    Len(t) = 3 /\ t[1] \in NumTokens /\ t[2] = "x" /\ t[3] \in NumTokens
IsFullForm(t) ==
    /\ Len(t) = 5 /\ t[1] \in NumTokens /\ t[2] = "x" /\ t[3] \in NumTokens
    /\ t[4] \in STokens /\ t[5] \in STokens
IsPositionForm(t) ==
    Len(t) = 2 /\ t[1] \in NumTokens /\ t[2] \in STokens

\* C10 as stated: the three forms are accepted with their meaning, and every
\* other string is rejected.
C10_ExactlyThreeForms ==
    Parsed =>
        /\ IsSizeForm(GeoText) =>
              Accepted /\ Size(GeoText[1], GeoText[3]) /\ PositionUnset
        /\ IsFullForm(GeoText) =>
              /\ Accepted /\ Size(GeoText[1], GeoText[3])
              /\ Position(GeoText[4], GeoText[5])
        /\ IsPositionForm(GeoText) =>
              Accepted /\ Position(GeoText[1], GeoText[2]) /\ DefaultSize
        /\ ~(IsSizeForm(GeoText) \/ IsFullForm(GeoText) \/ IsPositionForm(GeoText))
              => RejectedGeometry

\* The numbers a text begins with when read along a pattern of "N" (a number,
\* white space before it skipped) and "x" (the letter, no white space
\* skipped): the tokens of the numbers read until the text stops matching.
RECURSIVE ReadAlong(_, _, _)
ReadAlong(t, pat, got) ==
    IF pat = <<>> \/ t = <<>> THEN got
    ELSE IF Head(pat) = "N" /\ Head(t) = " " THEN ReadAlong(Tail(t), pat, got)
    ELSE IF Head(pat) = "N" /\ Head(t) \in NumTokens
    THEN ReadAlong(Tail(t), Tail(pat), Append(got, Head(t)))
    ELSE IF Head(pat) = "x" /\ Head(t) = "x"
    THEN ReadAlong(Tail(t), Tail(pat), got)
    ELSE got

FullRead == ReadAlong(GeoText, <<"N", "x", "N", "N", "N">>, <<>>)
SizeRead == ReadAlong(GeoText, <<"N", "x", "N">>, <<>>)
PositionRead == ReadAlong(GeoText, <<"N", "N">>, <<>>)

(* C10: parse_geometry reads a prefix of the string and ignores the rest.
   With a number being an integer with an optional sign, white space before
   it skipped: a string that begins with four numbers, an 'x' directly behind
   the first, sets width, height and position; otherwise one that begins with
   two numbers around an 'x' sets width and height and leaves the position
   unset (so 'WxH+X' and 'WxH' followed by junk are accepted as 'WxH');
   otherwise one that begins with two numbers sets the position and the
   default size 480x480; every other string ('Wx', 'x', '', junk first) is
   rejected. *)
C10_PrefixForms ==
    Parsed =>
        IF Len(FullRead) = 4
        THEN /\ Accepted /\ Size(FullRead[1], FullRead[2])
             /\ Position(FullRead[3], FullRead[4])
        ELSE IF Len(SizeRead) = 2
        THEN Accepted /\ Size(SizeRead[1], SizeRead[2]) /\ PositionUnset
        ELSE IF Len(PositionRead) = 2
        THEN /\ Accepted /\ Position(PositionRead[1], PositionRead[2])
             /\ DefaultSize
        ELSE RejectedGeometry

\* 'WxH+X' was given and taken as 'WxH'.
C10_Witness ==
    /\ Parsed /\ Accepted
    /\ GeoText = <<"12", "x", "7", "+3">>
    /\ Size("12", "7") /\ PositionUnset

-----------------------------------------------------------------------------
(* Shutdown of the threaded version.  The scheduler runs both threads, and a
   backend call in flight returns unless the backend stalls: weak fairness
   on the steps of main's loop and on the steps of the capture thread.  The
   flag is a plain bool; the loop test calls into the library between two
   loads of it, so each test loads it from memory. *)

\* A step of the for (;;) loop of main, the join included.
MainLoopStep == IterateReturn \/ LoopTicks \/ LoopDraw \/ LoopEvents \/ Join

ThreadStep == ThreadOpen \/ ThreadTest \/ ThreadReadData \/ ThreadReadFails

SpecFair == Spec /\ WF_vars(MainLoopStep) /\ WF_vars(ThreadStep)

Joining == variant = "thread" /\ pc = "join"

(* C7: in the threaded version a quit event makes main clear run and join
   the capture thread before it returns 0; the capture thread starts no read
   once run is false, so with the call in flight returning the process ends;
   while the capture thread stays blocked in a read the main loop can still
   take its steps, and after a quit main stays in the join. *)
C7_RunFlagAndJoin ==
    /\ [](variant = "thread" /\ QuitEnded =>
            ~run /\ th_pc = "done" /\ FirstCall("pthread_join") > 0)
    /\ [](Joining => ~run)
    /\ [][variant = "thread" /\ ~run /\ th_pc # "read" => th_pc' # "read"]_vars
    /\ (Joining ~> pc = "done")
    /\ [](variant = "thread" /\ th_pc = "read"
            /\ pc \in {"loop_ticks", "loop_draw", "loop_events"}
            => ENABLED MainLoopStep)
    /\ [](Joining /\ th_pc # "done" => ~ENABLED MainLoopStep)
    /\ [][Joining /\ th_pc = "read" /\ th_pc' = "read" => Joining']_vars

\* A whole buffer was read, then the quit: the thread saw run false at its
\* next test, freed its handle, and the join returned.
C7_Witness ==
    /\ variant = "thread" /\ QuitEnded
    /\ failure = "none"
    /\ cap.written >= BUFFER_SIZE
    /\ pulse = "freed" /\ ~run

-----------------------------------------------------------------------------
(* parse_foreground on its own: command lines that hold one --foreground *)

MaxFgTokens == 4

HexTokens == {"FF", "00", "7f"}
FgTokens == HexTokens \cup {"#", "z"}

FgTexts(n) == UNION {[1 .. k -> FgTokens] : k \in 0 .. n}

InitForeground ==
    /\ variant = "info"
    /\ \E t \in FgTexts(MaxFgTokens) \cup {<<"rainbow">>} :
          argv = <<Opt("foreground", t)>>
    /\ lens = {8}
    /\ deltas = {0}
    /\ InitGlobals

NextForeground == ParseArgs

SpecForeground == InitForeground /\ [][NextForeground]_vars

\* The text given to --foreground, as tokens.
FgText == argv[1].val

\* The byte a pair of hex digits denotes.
ByteValue(t) == CASE t = "FF" -> 255 [] t = "00" -> 0 [] t = "7f" -> 127

\* The color the three hex bytes behind position k of the text denote.
ColorAt(t, k) ==
    [r |-> ByteValue(t[k + 1]), g |-> ByteValue(t[k + 2]),
     b |-> ByteValue(t[k + 3])]

IsHexForm(t) == Len(t) = 3 /\ \A i \in 1 .. 3 : t[i] \in HexTokens
IsHashForm(t) ==
    Len(t) = 4 /\ t[1] = "#" /\ \A i \in 2 .. 4 : t[i] \in HexTokens

ForegroundRejected == pc = "done" /\ status = EXIT_FAILURE /\ fail

(* C11: 'RRGGBB' and '#RRGGBB' are accepted and give the same color, each
   channel its hex byte; 'rainbow' is accepted, sets rainbow and leaves the
   color; every other string (the empty string, '#' alone, fewer than three
   bytes behind '#') is rejected, and the color stays as it was: it is never
   set from a channel that no conversion assigned. *)
C11_ForegroundForms ==
    Parsed =>
        /\ IsHexForm(FgText) =>
              Accepted /\ color = ColorAt(FgText, 0) /\ ~rainbow
        /\ IsHashForm(FgText) =>
              Accepted /\ color = ColorAt(FgText, 1) /\ ~rainbow
        /\ FgText = <<"rainbow">> => Accepted /\ rainbow /\ color = White
        /\ ~(IsHexForm(FgText) \/ IsHashForm(FgText) \/ FgText = <<"rainbow">>)
              => ForegroundRejected /\ color = White


-----------------------------------------------------------------------------
(* Drawing in rainbow mode: the program enters its main loop after
   --foreground rainbow, and the draw of the first iteration hands a hue to
   set_hue. *)

InitHue ==
    /\ variant = "info"
    /\ argv = <<Opt("foreground", <<"rainbow">>)>> /\ fail = FALSE /\ diags = 0
    /\ geometry = DefaultGeometry /\ opacity = DefaultOpacity
    /\ color = White /\ rainbow = TRUE
    /\ sink = Monitor(<<"out">>)
    /\ pc = "loop_iterate" /\ status = NoStatus
    /\ last_time = U32(0) /\ ticks = U32(0)
    /\ pa_mainloop = "live" /\ pa_context = "live" /\ pa_stream = "live"
    /\ ctx_state = "READY" /\ stream_state = "READY"
    /\ default_sink = <<"out">> /\ info_pending = FALSE
    /\ target = sink /\ connects = 1 /\ readies = 1
    /\ sdl = "on" /\ window = "live" /\ context = "live"
    /\ th_pc = "none" /\ pulse = NULL /\ run = TRUE /\ rd_pos = 0
    /\ buffer = ZeroBuffer /\ buffer_index = 0 /\ head = NoFrag
    /\ hue = NoHue /\ gl = GlInit /\ frame = FrameInit
    /\ lens = {8} /\ deltas = {0}
    /\ cap = CapInit /\ elapsed = 0
    /\ log = StartupLog
    /\ failure = "none"

NextHue == IterateReturn \/ LoopTicks \/ LoopDraw

SpecHue == InitHue /\ [][NextHue]_vars

\* The color a point is drawn in, as <<red, green, blue>> in units of 1 / 255.
Rgb == <<(gl.r * 255) \div gl.scale, (gl.g * 255) \div gl.scale,
         (gl.b * 255) \div gl.scale>>
\* The colors at 0, 60, 120, 180, 240 and 300 degrees.
SectorStart == <<<<255, 0, 0>>, <<255, 255, 0>>, <<0, 255, 0>>,
                 <<0, 255, 255>>, <<0, 0, 255>>, <<255, 0, 255>>>>
HueDrawn == hue # NoHue
Sector == Div60(Clamp(hue)) \div ONE

(* C12: whatever hue a draw hands to set_hue (any value from 0 up, also
   above 360), one of the six sector branches runs and sets the color; at
   0, 60, 120, 180, 240 and 300 degrees the color is (1,0,0), (1,1,0),
   (0,1,0), (0,1,1), (0,0,1) and (1,0,1), and 360 gives the color of 0. *)
C12_HueSectors ==
    HueDrawn =>
        /\ gl.set /\ gl.scale = ONE
        /\ Sector \in 0 .. 5
        /\ \A k \in 0 .. 6 :
               hue = k * 60 * HUE_UNIT =>
                   /\ Rgb = SectorStart[(k % 6) + 1]
                   /\ {gl.r, gl.g, gl.b} \subseteq {0, ONE}

\* a draw handed exactly 360 degrees to set_hue and the point came out red
C12_Witness ==
    /\ pc = "loop_events" /\ rainbow
    /\ hue = 360 * HUE_UNIT
    /\ gl = glColor3f(ONE, 0, 0, ONE)


-----------------------------------------------------------------------------
(* The frame gate late in a long run: the program is in its main loop and
   has just swapped and cleared at a tick shortly before SDL's 32-bit
   counter starts again from 0 (after 2^32 ms, about 49.7 days), or at
   SDL_Init. *)

\* 2^32 - k, for 0 < k < 2^16
U32Below(k) == [hi |-> HALF_RANGE - 1, lo |-> HALF_RANGE - k]

InitTicks ==
    /\ variant \in EventVariants
    /\ argv = <<>> /\ fail = FALSE /\ diags = 0
    /\ geometry = DefaultGeometry /\ opacity = DefaultOpacity
    /\ color = White /\ rainbow = FALSE
    /\ sink = IF variant = "info" THEN Monitor(<<"out">>) ELSE NoSink
    /\ pc = "loop_iterate" /\ status = NoStatus
    /\ ticks \in {U32(0)} \cup {U32Below(k) : k \in 1 .. MaxElapsed}
    /\ last_time = ticks
    /\ pa_mainloop = "live" /\ pa_context = "live" /\ pa_stream = "live"
    /\ ctx_state = "READY" /\ stream_state = "READY"
    /\ default_sink = <<"out">> /\ info_pending = FALSE
    /\ target = sink /\ connects = 1 /\ readies = 1
    /\ sdl = "on" /\ window = "live" /\ context = "live"
    /\ th_pc = "none" /\ pulse = NULL /\ run = TRUE /\ rd_pos = 0
    /\ buffer = ZeroBuffer /\ buffer_index = 0 /\ head = NoFrag
    /\ hue = NoHue /\ gl = GlInit /\ frame = FrameInit
    /\ lens = {8} /\ deltas = {0, 1, FRAME_TICKS, FRAME_TICKS + 1}
    /\ cap = CapInit /\ elapsed = 0
    /\ log = StartupLog
    /\ failure = "none"

NextTicks == IterateReturn \/ LoopTicks \/ LoopDraw \/ LoopEvents

SpecTicks == InitTicks /\ [][NextTicks]_vars

GateEvaluated == pc = "loop_draw"

(* C13: an iteration of the render loop swaps and clears exactly when more
   than 16 ticks have passed since the last swap and clear, for every value
   of the 32-bit tick counter and of last_time, also when last_time + 16 or
   the tick counter wraps around 2^32. *)
C13_FrameGate ==
    GateEvaluated => (frame.cleared <=> frame.waited > FRAME_TICKS)


-----------------------------------------------------------------------------
(* Order of the steps of a main-loop iteration, and who writes the buffer
   when. *)

\* main's position moves along iterate, gate, draw, events, iterate, ...
StepOrder ==
    /\ pc = "loop_iterate" => pc' \in {"loop_iterate", "loop_ticks", "done"}
    /\ pc = "loop_ticks" => pc' \in {"loop_ticks", "loop_draw"}
    /\ pc = "loop_draw" => pc' \in {"loop_draw", "loop_events"}
    /\ pc = "loop_events" => pc' \in {"loop_events", "loop_iterate", "done"}
BufferWrite == buffer' # buffer \/ buffer_index' # buffer_index
SwapAndClear == frame' # frame
Draw == pc = "loop_draw" /\ pc' = "loop_events"
OrderedStep ==
    /\ StepOrder
    /\ BufferWrite => pc = "loop_iterate" /\ pc' \in {pc, "done"}
    /\ SwapAndClear => pc = "loop_ticks" /\ pc' = "loop_draw"
    /\ Draw => buffer' = buffer /\ frame' = frame

(* C14: in the event-driven versions an iteration of the main loop runs
   pa_mainloop_iterate (which never blocks), then the gated swap and clear,
   then the draw, then the window events; the buffer and the cursor change
   only while main is inside pa_mainloop_iterate, so every draw finds the
   buffer as whole fragment copies left it.  A draw that reads the buffer
   while a write to it is in progress occurs in the threaded version only. *)
C14_StepsInOrder ==
    /\ [](cap.torn => variant = "thread")
    /\ [](variant \in EventVariants =>
            /\ cap.written = cap.consumed /\ ~WriteInProgress
            /\ pc = "loop_iterate" => ENABLED IterateReturn)
    /\ [][(variant \in EventVariants) => OrderedStep]_vars

\* the threaded version has drawn while pa_simple_read had stored half a
\* buffer
C14_Witness ==
    /\ variant = "thread"
    /\ cap.torn
    /\ pc = "loop_events" /\ th_pc = "read" /\ rd_pos = BUFFER_SIZE \div 2


-----------------------------------------------------------------------------
(* Peek and drop in handle_stream_read *)

\* A step of handle_stream_read (the backend's deliveries count fragments).
Callback == cap'.nfrag = cap.nfrag
Waiting == IF head = NoFrag THEN 0 ELSE 1
PeekOrDropFailed == failure \in {"peek", "drop"}
CallbackStep ==
    /\ head.length = 0 => cap'.dropped = cap.dropped /\ failure' # "drop"
    /\ head.length > 0 /\ failure' # "peek" =>
           cap'.peeked = cap.peeked + 1 /\ cap'.dropped = cap.dropped + 1
    /\ ~head.data => buffer' = buffer /\ buffer_index' = buffer_index
    /\ pc' # "done" => head' = NoFrag
    /\ failure' # "none" => pc' = "done" /\ status' = EXIT_FAILURE

(* C15: handle_stream_read drops every fragment of non-zero length it
   peeked, data or hole, once, and calls drop for no peek of length 0; a
   hole changes neither the buffer nor the cursor; a failed peek or drop
   ends the process; so while the process runs every fragment delivered has
   been peeked once and dropped once, except the one that waits at the head
   of the queue for its callback, and each element was copied once. *)
C15_PeekThenDropOnce ==
    /\ [](cap.dropped = cap.peeked)
    /\ [](PeekOrDropFailed <=> Fatal)
    /\ [](~Fatal => /\ cap.peeked = cap.nfrag - Waiting
                    /\ cap.lost = 0
                    /\ cap.written = cap.consumed)
    /\ [][Callback => CallbackStep]_vars

\* two fragments, a hole and two frames of data (four elements), have both
\* been peeked and dropped, and the queue is empty again
C15_Witness ==
    /\ pc # "done"
    /\ cap.nfrag = 2 /\ cap.peeked = 2 /\ cap.dropped = 2 /\ head = NoFrag
    /\ cap.consumed = 4 /\ buffer_index = 4

====
